---- MODULE Spec2Model ----
(***************************************************************************)
(* Request orchestration of the OpenAI-compatible text handlers            *)
(* (handle_chat_completions, handle_completions) of                        *)
(* src-tauri/src/proxy/handlers/openai.rs: the bounded attempt loop with   *)
(* token acquisition, upstream call, stream peek, error classification     *)
(* and the exhaustion response.                                            *)
(***************************************************************************)
EXTENDS Integers, Sequences, FiniteSets, TLC

VARIABLES
    handler,              \* which text handler serves the request
    model,                \* openai_req.model
    custom_mapping,       \* state.custom_mapping
    client_wants_stream,  \* openai_req.stream
    last_msg,             \* openai_req.messages.last()
    pool_size,            \* token_manager.len()
    max_attempts,
    mapped_model,
    attempt,              \* loop variable of `for attempt in 0..max_attempts`
    pc,                   \* position of the handler inside the loop body
    email,                \* email of the ticket of the current attempt
    last_email,
    last_error,
    upstream_resp,        \* the upstream response of the current attempt
    stream_in,            \* the translated stream the accepted attempt read
    response,             \* the response returned to the client
    tm_sticky,            \* token manager: session -> account affinity
    tm_marks,             \* token manager: number of mark_rate_limited calls received
    last_mark,            \* token manager: arguments of the latest mark_rate_limited call
    tm_success,           \* token manager: mark_account_success calls received
    get_token_calls,      \* number of get_token calls of the request
    last_get_token,       \* arguments and result of the latest get_token call
    upstream_calls,       \* number of call_v1_internal calls of the request
    last_call,            \* method and query of the latest upstream call
    rate_limit_seen,      \* upstream responses in {429,500,503,529} seen
    last_failure,         \* the latest failed attempt: its account and cause
    slept,                 \* delay of the latest backoff sleep, ms
    \* image handlers
    img_n,                \* n: number of images asked for
    tasks,                \* result of each spawned upstream call, by index
    images,               \* Vec<Value> of collected images
    errors,               \* Vec<String> of collected errors
    \* peek loop, chunk by chunk
    clock,                \* seconds since the peek of this attempt began
    idle,                 \* seconds since openai_stream.next() was last awaited
    arrived,              \* chunks openai_stream has yielded on this attempt
    first_data_chunk,
    retry_signals,        \* times the peek set retry_this_account
    \* body normalization
    body,                 \* the JSON body
    runs,                 \* times the normalization was applied to body
    messages              \* openai_req.messages

textVars == <<handler, model, custom_mapping, client_wants_stream, last_msg,
          pool_size, max_attempts, mapped_model, attempt, pc, email,
          last_email, last_error, upstream_resp, stream_in, response, tm_sticky,
          tm_marks, last_mark, tm_success, get_token_calls, last_get_token,
          upstream_calls, last_call, rate_limit_seen, last_failure,
          slept>>

imageVars == <<img_n, tasks, images, errors>>
streamVars == <<clock, idle, arrived, first_data_chunk, retry_signals>>
normVars == <<body, runs, messages>>

vars == <<textVars, imageVars, streamVars, normVars>>

\* ------------------------------------------------------------------ bounds
MaxUsize == 7            \* usize::MAX of the modelled machine word
MaxChunks == 2           \* chunks a translated stream yields before it terminates

\* --------------------------------------------------------------- constants
MAX_RETRY_ATTEMPTS == 3

Min(a, b) == IF a < b THEN a ELSE b
Max(a, b) == IF a > b THEN a ELSE b

\* ---------------------------------------------------------- request inputs
Handlers == {"chat", "completions"}
Models == {"gpt-4o"}
CustomMappings == {"none", "custom"}
PoolSizes == {0, 1, 2, MaxUsize}
Accounts == <<"a@x", "b@x">>
NoEmail == "-"

\* openai_req.messages.last(): its role and the shape of its content
LastMsgs ==
    { [role |-> "user", content |-> "string", repairs |-> 0],
      [role |-> "assistant", content |-> "array", repairs |-> 0] }

\* ------------------------------------------------------- upstream responses
ErrorStatuses == {400, 401, 403, 404, 429, 500, 503, 529}
RateLimitStatuses == {429, 500, 503, 529}
ErrorTexts == {"plain", "Invalid signature"}
NetworkErrors == {"connection reset"}

\* chunks a translated SSE stream can yield
EmptyChunk == ""
CommentChunk == ": ping"
DataCommentChunk == " data: :hb"
ErrorChunk == "data: {\"error\":{}}"
DataChunk == "data: {\"choices\":[]}"
ChunkTexts == {EmptyChunk, CommentChunk, DataCommentChunk, ErrorChunk, DataChunk}
StreamEnds == {"end", "error", "timeout"}

SeqsUpTo(S, n) == UNION { [1..k -> S] : k \in 0..n }

Streams == { [chunks |-> cs, term |-> t] : cs \in SeqsUpTo(ChunkTexts, MaxChunks), t \in StreamEnds }
NoStream == [chunks |-> <<>>, term |-> "end"]

NoUpstream == [status |-> 0, text |-> "", retry_after |-> 0]

\* ----------------------------------------------------------- last_error
LastError(cause, status, text, msg) ==
    [cause |-> cause, status |-> status, text |-> text, msg |-> msg]
NoError == LastError("none", 0, "", "")

NoFailure == [attempt |-> -1, email |-> NoEmail, cause |-> "none", status |-> 0, text |-> ""]

\* ------------------------------------------------------------- responses
Resp(kind, status, headers, text, detail, chunks) ==
    [kind |-> kind, status |-> status, headers |-> headers, text |-> text,
     detail |-> detail, chunks |-> chunks]
NoResponse == Resp("none", 0, {}, "", NoError, <<>>)

\* ------------------------------------------------- external collaborators
\* crate::proxy::common::model_mapping::resolve_model_route:
\* user mapping entry > built-in alias > identity
ResolveModelRoute(m, mapping) ==
    IF mapping = "custom" /\ m = "gpt-4o" THEN "custom-model"
    ELSE IF m = "gpt-4o" THEN "gemini-2.5-flash"
    ELSE m

\* SessionManager::extract_openai_session_id: a function of the request
ExtractSessionId(m, msg) == <<m, msg.role, msg.content, msg.repairs>>

\* RetryStrategy
NoRetry == [kind |-> "NoRetry", ms |-> 0]
FixedDelay(ms) == [kind |-> "FixedDelay", ms |-> ms]
ExponentialBackoff(base, cap) == [kind |-> "ExponentialBackoff", ms |-> base, cap |-> cap]

ContainsSignatureError(text) == text = "Invalid signature"

\* super::common::determine_retry_strategy(status_code, error_text, false)
DetermineRetryStrategy(status_code, error_text) ==
    CASE status_code \in {401, 403} -> FixedDelay(200)
      [] status_code \in {429, 500, 503, 529} -> ExponentialBackoff(500, 8000)
      [] status_code = 400 /\ ContainsSignatureError(error_text) -> FixedDelay(0)
      [] OTHER -> NoRetry

Pow2(n) == IF n = 0 THEN 1 ELSE IF n = 1 THEN 2 ELSE IF n = 2 THEN 4 ELSE 8

\* super::common::apply_retry_strategy: sleeps, and tells whether to retry
ApplyRetryStrategy(strategy) == strategy.kind # "NoRetry"
RetryDelay(strategy, att) ==
    CASE strategy.kind = "FixedDelay" -> strategy.ms
      [] strategy.kind = "ExponentialBackoff" -> Min(strategy.ms * Pow2(att), strategy.cap)
      [] OTHER -> 0

\* super::common::should_rotate_account
ShouldRotateAccount(status_code) == status_code \in {401, 403, 429, 500, 503, 529}

\* token_manager: the accounts of the pool
Pool(n) == { Accounts[i] : i \in 1..Min(n, Len(Accounts)) }

\* token_manager.get_token(request_type, force_rotate, session_id, model):
\* the accounts it may return; the empty set is the Err outcome
GetTokenChoices(force_rotate, session_id, sticky, pool) ==
    IF force_rotate
    THEN IF sticky.session = session_id /\ pool \ {sticky.account} # {}
         THEN pool \ {sticky.account}
         ELSE pool
    ELSE IF sticky.session = session_id /\ sticky.account \in pool
         THEN {sticky.account}
         ELSE pool

\* ------------------------------------------------------ handler helpers
\* pool_size.saturating_add(1)
SaturatingAdd1(n) == IF n >= MaxUsize THEN MaxUsize ELSE n + 1

\* mutants of MaxAttempts: the cap of MAX_RETRY_ATTEMPTS left out; the floor
\* of 2 left out
MaxAttempts_NoCap(n) == Max(SaturatingAdd1(n), 2)
MaxAttempts_NoFloor(n) == Min(MAX_RETRY_ATTEMPTS, SaturatingAdd1(n))

\* mutant of MaxAttempts: the pool size itself, without the floor of 2
MaxAttempts_PoolSize(n) == Min(MAX_RETRY_ATTEMPTS, n)

\* MAX_RETRY_ATTEMPTS.min(pool_size.saturating_add(1)).max(2)
MaxAttempts(n) == Max(Min(MAX_RETRY_ATTEMPTS, SaturatingAdd1(n)), 2)

\* mutant of ForceRotate: retries never rotate
ForceRotate_Never(att) == FALSE

\* the force_rotate argument of get_token
ForceRotate(att) == att > 0

\* client_wants_stream || force_stream_internally
\* mutant of ActualStream: the upstream call follows the client's flag
ActualStream_Client(wants) == wants

ActualStream(wants) == wants \/ ~wants

Method(actual_stream) == IF actual_stream THEN "streamGenerateContent" ELSE "generateContent"
QueryString(actual_stream) == IF actual_stream THEN "alt=sse" ELSE "None"

\* text.trim().starts_with(":") || text.trim().starts_with("data: :")
IsHeartbeat(text) == text \in {CommentChunk, DataCommentChunk}
\* text.contains("\"error\"")
ContainsError(text) == text = ErrorChunk

\* the peek loop over the translated stream: the outcome and the position
\* of the chunk it stopped at
RECURSIVE PeekFrom(_, _)
PeekFrom(stream, i) ==
    IF i > Len(stream.chunks)
    THEN [outcome |-> CASE stream.term = "end" -> "empty"
                        [] stream.term = "error" -> "stream_error"
                        [] OTHER -> "timeout",
          idx |-> i]
    ELSE LET bytes == stream.chunks[i] IN
         IF bytes = EmptyChunk THEN PeekFrom(stream, i + 1)
         ELSE IF IsHeartbeat(bytes) THEN PeekFrom(stream, i + 1)
         ELSE IF ContainsError(bytes) THEN [outcome |-> "error_event", idx |-> i]
         ELSE [outcome |-> "data", idx |-> i]

Peek(stream) == PeekFrom(stream, 1)

\* futures::stream::once(first_data_chunk).chain(openai_stream)
CombinedStream(stream, idx) ==
    <<stream.chunks[idx]>> \o SubSeq(stream.chunks, idx + 1, Len(stream.chunks))

\* mutant of PeekLastError: the failed peek leaves last_error as it was
PeekLastError_Silent(h, wants, outcome) == last_error

\* last_error after a failed peek
PeekLastError(h, wants, outcome) ==
    LastError(outcome, 0, "",
        IF h = "chat" THEN
            CASE outcome = "error_event" -> "Error event during peek"
              [] outcome = "stream_error" -> "Stream error during peek"
              [] outcome = "empty" -> "Empty response stream during peek"
              [] OTHER -> "Timeout waiting for first data"
        ELSE IF wants THEN
            CASE outcome = "error_event" -> "Error event during peek"
              [] outcome = "stream_error" -> "Stream error during peek"
              [] outcome = "empty" -> "Empty response stream"
              [] OTHER -> "Timeout waiting for first data"
        ELSE
            CASE outcome = "error_event" -> "Error event in internal stream"
              [] outcome = "stream_error" -> "Internal stream error"
              [] outcome = "empty" -> "Empty internal stream"
              [] OTHER -> "Timeout peek internal")

\* mutant of NetworkLastError: the network error is not recorded
NetworkLastError_Stale(e) == last_error

\* last_error = e.clone()
NetworkLastError(e) == LastError("network", 0, e, e)

\* last_error = format!("HTTP {}: {}", status_code, error_text)
HttpLastError(status_code, error_text) == LastError("http", status_code, error_text, "HTTP")

\* mutant of MarksRateLimited: 401 and 403 are marked as well
MarksRateLimited_Auth(status_code) ==
    status_code \in {429, 529, 503, 500, 401, 403}

\* mutant of MarksRateLimited: 404 is marked as well
MarksRateLimited_NotFound(status_code) ==
    status_code \in {429, 529, 503, 500, 404}

\* mutant of MarksRateLimited: 529 left out of the marked statuses
MarksRateLimited_No529(status_code) ==
    status_code = 429 \/ status_code = 503 \/ status_code = 500

\* status_code == 429 || status_code == 529 || status_code == 503 || status_code == 500
MarksRateLimited(status_code) ==
    status_code = 429 \/ status_code = 529 \/ status_code = 503 \/ status_code = 500

\* mutant of ErrorBranch: 404 is retried like 401 and 403
ErrorBranch_Retry404(h, status_code, error_text) ==
    IF ApplyRetryStrategy(DetermineRetryStrategy(status_code, error_text)) THEN "backoff"
    ELSE IF h = "chat" /\ status_code = 400 /\ ContainsSignatureError(error_text) THEN "signature"
    ELSE IF status_code \in {401, 403, 404} THEN "auth"
    ELSE "return"

\* mutant of ErrorBranch: the result of apply_retry_strategy is ignored
ErrorBranch_NoBackoff(h, status_code, error_text) ==
    IF h = "chat" /\ status_code = 400 /\ ContainsSignatureError(error_text) THEN "signature"
    ELSE IF h = "chat" /\ (status_code = 403 \/ status_code = 401) THEN "auth"
    ELSE "return"

\* what the handler does with an upstream error status:
\* "backoff" (sleep per strategy, continue), "signature" (repair prompt,
\* continue), "auth" (200 ms, continue) or "return" (pass the status through)
\* mutant of ErrorBranch: the signature recovery runs first, in both handlers
ErrorBranch_SignatureFirst(h, status_code, error_text) ==
    IF status_code = 400 /\ ContainsSignatureError(error_text) THEN "signature"
    ELSE IF ApplyRetryStrategy(DetermineRetryStrategy(status_code, error_text)) THEN "backoff"
    ELSE "return"

ErrorBranch(h, status_code, error_text) ==
    IF ApplyRetryStrategy(DetermineRetryStrategy(status_code, error_text)) THEN "backoff"
    ELSE IF h = "chat" /\ status_code = 400 /\ ContainsSignatureError(error_text) THEN "signature"
    ELSE IF h = "chat" /\ (status_code = 403 \/ status_code = 401)
            /\ ApplyRetryStrategy(FixedDelay(200)) THEN "auth"
    ELSE "return"

\* the repair prompt appended to the last message
AppendRepairPrompt(msg) ==
    IF msg.role = "user" THEN [msg EXCEPT !.repairs = @ + 1] ELSE msg

\* ------------------------------------------------- responses of the handler
MappedHeader(mm) == {<<"X-Mapped-Model", mm>>}

\* mutant of AccountHeaders: the email of the attempt that failed before
AccountHeaders_Stale(em, mm) ==
    {<<"X-Account-Email", IF last_failure.email # NoEmail THEN last_failure.email ELSE em>>,
     <<"X-Mapped-Model", mm>>}

AccountHeaders(em, mm) == {<<"X-Account-Email", em>>, <<"X-Mapped-Model", mm>>}

\* mutant of TokenErrorResponse: the 503 is returned without headers
TokenErrorResponse_NoHeader(mm) ==
    Resp("token_error", 503, {}, "Token error", NoError, <<>>)

TokenErrorResponse(mm) ==
    Resp("token_error", 503, MappedHeader(mm), "Token error", NoError, <<>>)

SseResponse(h, em, mm, chunks) ==
    Resp("sse", 200,
         {<<"Content-Type", "text/event-stream">>, <<"Cache-Control", "no-cache">>,
          <<"Connection", "keep-alive">>}
           \cup (IF h = "chat" THEN {<<"X-Accel-Buffering", "no">>} ELSE {})
           \cup AccountHeaders(em, mm),
         "", NoError, chunks)

JsonResponse(em, mm, chunks) ==
    Resp("json", 200, AccountHeaders(em, mm), "", NoError, chunks)

\* mutant of CollectErrorResponse: a status outside the handler's own codes
CollectErrorResponse_GatewayTimeout ==
    Resp("collect_error", 504, {}, "Stream collection error", NoError, <<>>)

CollectErrorResponse ==
    Resp("collect_error", 500, {}, "Stream collection error", NoError, <<>>)

ParseErrorResponse(h, mm) ==
    Resp("parse_error", 502, IF h = "chat" THEN {} ELSE MappedHeader(mm),
         "Parse error", NoError, <<>>)

PassThroughResponse(status, em, mm, error_text) ==
    Resp("passthrough", status, AccountHeaders(em, mm), error_text, NoError, <<>>)

ExhaustedResponse(le, mm, lerr) ==
    Resp("exhausted", 429,
         IF le # NoEmail THEN AccountHeaders(le, mm) ELSE MappedHeader(mm),
         "All accounts exhausted. Last error: ", lerr, <<>>)

\* ---------------------------------------------------------------- state
NoSticky == [session |-> <<>>, account |-> NoEmail]
NoMark == [email |-> NoEmail, status |-> 0, retry_after |-> 0, model |-> "", attempt |-> -1]
NoGetToken == [attempt |-> -1, force_rotate |-> FALSE, session |-> <<>>, result |-> NoEmail]
NoCall == [method |-> "", query |-> ""]

\* the variables of the image handlers, of the chunk-by-chunk peek and of
\* body normalization, before any of them has run
NoBody == [has |-> {}]
ImageIdle == img_n = 0 /\ tasks = <<>> /\ images = <<>> /\ errors = <<>>
StreamIdle ==
    /\ clock = 0
    /\ idle = 0
    /\ arrived = <<>>
    /\ first_data_chunk = ""
    /\ retry_signals = 0
NormIdle == body = NoBody /\ runs = 0 /\ messages = <<>>

Init ==
    /\ handler \in Handlers
    /\ model \in Models
    /\ custom_mapping \in CustomMappings
    /\ client_wants_stream \in BOOLEAN
    /\ last_msg \in LastMsgs
    /\ pool_size \in PoolSizes
    /\ max_attempts = 0
    /\ mapped_model = ""
    /\ attempt = 0
    /\ pc = "start"
    /\ email = NoEmail
    /\ last_email = NoEmail
    /\ last_error = NoError
    /\ upstream_resp = NoUpstream
    /\ stream_in = NoStream
    /\ response = NoResponse
    /\ tm_sticky = NoSticky
    /\ tm_marks = 0
    /\ last_mark = NoMark
    /\ tm_success = {}
    /\ get_token_calls = 0
    /\ last_get_token = NoGetToken
    /\ upstream_calls = 0
    /\ last_call = NoCall
    /\ rate_limit_seen = 0
    /\ last_failure = NoFailure
    /\ slept = 0
    /\ ImageIdle
    /\ StreamIdle
    /\ NormIdle

\* the handler reads the pool size, fixes the attempt budget and resolves
\* the model route, once, before the loop
Begin ==
    /\ pc = "start"
    /\ max_attempts' = MaxAttempts(pool_size)
    /\ mapped_model' = ResolveModelRoute(model, custom_mapping)
    /\ pc' = "get_token"
    /\ UNCHANGED <<handler, model, custom_mapping, client_wants_stream, last_msg,
                   pool_size, attempt, email, last_email, last_error, upstream_resp,
                   stream_in, response, tm_sticky, tm_marks, last_mark, tm_success,
                   get_token_calls, last_get_token, upstream_calls, last_call,
                   rate_limit_seen, last_failure, slept>>
    /\ UNCHANGED <<imageVars, streamVars, normVars>>

\* top of the loop body: session id, then get_token; Err returns 503
GetToken ==
    /\ pc = "get_token"
    /\ attempt < max_attempts
    /\ LET session_id == ExtractSessionId(model, last_msg)
           force_rotate == ForceRotate(attempt)
           choices == GetTokenChoices(force_rotate, session_id, tm_sticky, Pool(pool_size))
       IN \E t \in choices \cup {"Err"} :
            /\ get_token_calls' = get_token_calls + 1
            /\ last_get_token' = [attempt |-> attempt, force_rotate |-> force_rotate,
                                  session |-> session_id, result |-> t]
            /\ IF t = "Err"
               THEN /\ response' = TokenErrorResponse(mapped_model)
                    /\ pc' = "done"
                    /\ UNCHANGED <<email, last_email, tm_sticky>>
               ELSE /\ email' = t
                    /\ last_email' = t
                    /\ tm_sticky' = [session |-> session_id, account |-> t]
                    /\ pc' = "call"
                    /\ UNCHANGED response
    /\ UNCHANGED <<handler, model, custom_mapping, client_wants_stream, last_msg,
                   pool_size, max_attempts, mapped_model, attempt, last_error,
                   upstream_resp, stream_in, tm_marks, last_mark, tm_success,
                   upstream_calls, last_call, rate_limit_seen, last_failure, slept>>
    /\ UNCHANGED <<imageVars, streamVars, normVars>>

UpstreamResponses ==
    { [status |-> 200, text |-> "", retry_after |-> 0] }
    \cup { [status |-> st, text |-> tx, retry_after |-> ra] :
             st \in ErrorStatuses, tx \in ErrorTexts, ra \in {0, 1} }

\* the responses upstream is modelled to give: the signature text on 400 and
\* 404 only, a Retry-After header on 429 and 503 only
UpstreamOutcomes ==
    { r \in UpstreamResponses :
        /\ (r.text # "plain" /\ r.status # 200) => r.status \in {400, 404}
        /\ r.retry_after # 0 => r.status \in {429, 503} }

\* translate the request and call upstream; a network error continues
CallUpstream ==
    /\ pc = "call"
    /\ upstream_calls' = upstream_calls + 1
    /\ last_call' = [method |-> Method(ActualStream(client_wants_stream)),
                     query |-> QueryString(ActualStream(client_wants_stream))]
    /\ \E r \in UpstreamOutcomes \cup { [status |-> 0, text |-> e, retry_after |-> 0] : e \in NetworkErrors } :
         IF r.status = 0
         THEN /\ last_error' = NetworkLastError(r.text)
              /\ last_failure' = [attempt |-> attempt, email |-> email, cause |-> "network",
                                  status |-> 0, text |-> r.text]
              /\ attempt' = attempt + 1
              /\ pc' = "get_token"
              /\ UNCHANGED upstream_resp
         ELSE /\ upstream_resp' = r
              /\ pc' = "response"
              /\ UNCHANGED <<last_error, last_failure, attempt>>
    /\ UNCHANGED <<handler, model, custom_mapping, client_wants_stream, last_msg,
                   pool_size, max_attempts, mapped_model, email, last_email,
                   stream_in, response, tm_sticky, tm_marks, last_mark, tm_success,
                   get_token_calls, last_get_token, rate_limit_seen, slept>>
    /\ UNCHANGED <<imageVars, streamVars, normVars>>

\* upstream answered 2xx: peek the translated stream, then return SSE or
\* the collected JSON; a failed peek continues
HandleSuccess ==
    /\ pc = "response"
    /\ upstream_resp.status = 200
    /\ tm_success' = IF handler = "completions" THEN tm_success \cup {email} ELSE tm_success
    /\ IF ActualStream(client_wants_stream)
       THEN \E stream \in Streams :
              LET peek == Peek(stream) IN
              IF peek.outcome # "data"
              THEN /\ last_error' = PeekLastError(handler, client_wants_stream, peek.outcome)
                   /\ last_failure' = [attempt |-> attempt, email |-> email,
                                       cause |-> peek.outcome, status |-> 0, text |-> ""]
                   /\ attempt' = attempt + 1
                   /\ pc' = "get_token"
                   /\ upstream_resp' = NoUpstream
                   /\ UNCHANGED <<response, stream_in>>
              ELSE /\ stream_in' = stream
                   /\ \E collected \in BOOLEAN :
                        response' =
                          IF client_wants_stream
                          THEN SseResponse(handler, email, mapped_model,
                                           CombinedStream(stream, peek.idx))
                          ELSE IF collected
                          THEN JsonResponse(email, mapped_model,
                                            CombinedStream(stream, peek.idx))
                          ELSE CollectErrorResponse
                   /\ pc' = "done"
                   /\ UNCHANGED <<last_error, last_failure, attempt, upstream_resp>>
       ELSE /\ \E parsed \in BOOLEAN :
                 response' = IF parsed THEN JsonResponse(email, mapped_model, <<>>)
                             ELSE ParseErrorResponse(handler, mapped_model)
            /\ pc' = "done"
            /\ UNCHANGED <<last_error, last_failure, attempt, stream_in, upstream_resp>>
    /\ UNCHANGED <<handler, model, custom_mapping, client_wants_stream, last_msg,
                   pool_size, max_attempts, mapped_model, email, last_email,
                   tm_sticky, tm_marks, last_mark,
                   get_token_calls, last_get_token, upstream_calls, last_call,
                   rate_limit_seen, slept>>
    /\ UNCHANGED <<imageVars, streamVars, normVars>>

\* upstream answered with an error status: record it, mark the account,
\* then back off and continue, or pass the status through
HandleError ==
    /\ pc = "response"
    /\ upstream_resp.status >= 400
    /\ LET status_code == upstream_resp.status
           error_text == upstream_resp.text
           strategy == DetermineRetryStrategy(status_code, error_text)
           branch == ErrorBranch(handler, status_code, error_text)
       IN /\ last_error' = HttpLastError(status_code, error_text)
          /\ last_failure' = [attempt |-> attempt, email |-> email, cause |-> "http",
                              status |-> status_code, text |-> error_text]
          /\ rate_limit_seen' = IF status_code \in RateLimitStatuses
                                THEN rate_limit_seen + 1 ELSE rate_limit_seen
          /\ IF MarksRateLimited(status_code)
             THEN /\ tm_marks' = tm_marks + 1
                  /\ last_mark' = [email |-> email, status |-> status_code,
                                   retry_after |-> upstream_resp.retry_after,
                                   model |-> mapped_model, attempt |-> attempt]
             ELSE UNCHANGED <<tm_marks, last_mark>>
          /\ IF branch = "return"
             THEN /\ response' = PassThroughResponse(status_code, email, mapped_model, error_text)
                  /\ pc' = "done"
                  /\ UNCHANGED <<attempt, slept, last_msg, upstream_resp>>
             ELSE /\ slept' = CASE branch = "backoff" -> RetryDelay(strategy, attempt)
                                [] branch = "auth" -> RetryDelay(FixedDelay(200), attempt)
                                [] OTHER -> 0
                  /\ last_msg' = IF branch = "signature" THEN AppendRepairPrompt(last_msg)
                                 ELSE last_msg
                  /\ attempt' = attempt + 1
                  /\ pc' = "get_token"
                  /\ upstream_resp' = NoUpstream
                  /\ UNCHANGED response
    /\ UNCHANGED <<handler, model, custom_mapping, client_wants_stream,
                   pool_size, max_attempts, mapped_model, email, last_email,
                   stream_in, tm_sticky, tm_success,
                   get_token_calls, last_get_token, upstream_calls, last_call>>
    /\ UNCHANGED <<imageVars, streamVars, normVars>>

\* the loop ran max_attempts times without returning
Exhausted ==
    /\ pc = "get_token"
    /\ attempt >= max_attempts
    /\ response' = ExhaustedResponse(last_email, mapped_model, last_error)
    /\ pc' = "done"
    /\ UNCHANGED <<handler, model, custom_mapping, client_wants_stream, last_msg,
                   pool_size, max_attempts, mapped_model, attempt, email, last_email,
                   last_error, upstream_resp, stream_in, tm_sticky, tm_marks, last_mark,
                   tm_success, get_token_calls, last_get_token, upstream_calls,
                   last_call, rate_limit_seen, last_failure, slept>>
    /\ UNCHANGED <<imageVars, streamVars, normVars>>

Next == Begin \/ GetToken \/ CallUpstream \/ HandleSuccess \/ HandleError \/ Exhausted

Spec == Init /\ [][Next]_vars

\* the state of the attempt loop before the handler has touched it; the
\* specifications below start from it
LoopIdle ==
    /\ model \in Models
    /\ custom_mapping = "none"
    /\ last_msg \in { m \in LastMsgs : m.role = "user" }
    /\ max_attempts = 0
    /\ mapped_model = ""
    /\ attempt = 0
    /\ email = NoEmail
    /\ last_email = NoEmail
    /\ last_error = NoError
    /\ upstream_resp = NoUpstream
    /\ stream_in = NoStream
    /\ response = NoResponse
    /\ tm_sticky = NoSticky
    /\ tm_marks = 0
    /\ last_mark = NoMark
    /\ tm_success = {}
    /\ get_token_calls = 0
    /\ last_get_token = NoGetToken
    /\ upstream_calls = 0
    /\ last_call = NoCall
    /\ rate_limit_seen = 0
    /\ last_failure = NoFailure
    /\ slept = 0

\* ------------------------------------------------------ body normalization
MaxItems == 2            \* longest input array of a body
MaxRuns == 2             \* times the normalization is applied to a body

\* JSON values of the fields the normalization reads
Absent == [t |-> "absent", s |-> "", items |-> <<>>]
Str(text) == [t |-> "str", s |-> text, items |-> <<>>]
Arr(items) == [t |-> "arr", s |-> "", items |-> items]
Num == [t |-> "num", s |-> "7", items |-> <<>>]

\* a message of the messages array; raw marks an input item copied as it is
Msg(role, content, call_id, name, raw) ==
    [role |-> role, content |-> content, call_id |-> call_id, name |-> name, raw |-> raw,
     arguments |-> ""]
\* an assistant message with tool_calls[0] = {id, function: {name, arguments}}
ToolCallMsg(call_id, name, args_str) ==
    [role |-> "assistant", content |-> "", call_id |-> call_id, name |-> name,
     raw |-> FALSE, arguments |-> args_str]
SystemMsg(text) == Msg("system", text, "", "", FALSE)
UserMsg(text) == Msg("user", text, "", "", FALSE)

NoMessages == [t |-> "absent", list |-> <<>>]
MessagesArray(list) == [t |-> "arr", list |-> list]

\* elements of an input array: typed Codex items, chat message objects,
\* bare strings
\* action.exec.command of a local_shell_call item
NoAction == [t |-> "none", words |-> <<>>]
CmdString(word) == [t |-> "str", words |-> <<word>>]
CmdArray(words) == [t |-> "arr", words |-> words]
CmdNumber(digits) == [t |-> "num", words |-> <<digits>>]

Item(json, type, has_role, role, text, call_id, name) ==
    [json |-> json, type |-> type, has_role |-> has_role, role |-> role,
     text |-> text, call_id |-> call_id, name |-> name, command |-> NoAction]
ShellItem(call_id, command) ==
    [Item("object", "local_shell_call", FALSE, "", "", call_id, "") EXCEPT
        !.command = command]
InputItems ==
    { Item("object", "message", TRUE, "user", "say hi", "", ""),
      Item("object", "", TRUE, "assistant", "earlier", "", ""),
      Item("string", "", FALSE, "", "plain", "", ""),
      Item("object", "function_call", FALSE, "", "", "c1", "grep"),
      Item("object", "function_call", FALSE, "", "", "c1", "sed"),
      Item("object", "function_call_output", FALSE, "", "out", "c1", ""),
      Item("object", "custom_tool_call_output", FALSE, "", "done", "s1", ""),
      Item("object", "reasoning", FALSE, "", "", "", ""),
      ShellItem("s1", CmdString("ls")),
      ShellItem("s2", CmdArray(<<"ls", "-l">>)),
      ShellItem("s3", NoAction),
      ShellItem("s4", CmdNumber("5")) }

Bodies ==
    { [messages |-> m, instructions |-> ins, input |-> inp, prompt |-> pr] :
        m \in {NoMessages, MessagesArray(<<>>), MessagesArray(<<UserMsg("hello")>>)},
        ins \in {Absent, Str(""), Str("You are terse"), Num},
        inp \in {Absent, Str("say hi"), Num} \cup { Arr(is) : is \in SeqsUpTo(InputItems, MaxItems) },
        pr \in {Absent, Str("p"), Arr(<<Item("string", "", FALSE, "", "p", "", ""),
                                        Item("string", "", FALSE, "", "q", "", "")>>), Num} }

\* Value::to_string of an item and of a value
ItemToString(item) ==
    IF item.json = "string" THEN "\"" \o item.text \o "\""
    ELSE "{" \o item.type \o "," \o item.role \o "," \o item.text \o "," \o item.call_id \o "}"

RECURSIVE ItemsToString(_)
ItemsToString(items) ==
    IF items = <<>> THEN ""
    ELSE IF Len(items) = 1 THEN ItemToString(items[1])
    ELSE ItemToString(items[1]) \o "," \o ItemsToString(Tail(items))

ValueToString(v) ==
    CASE v.t = "str" -> "\"" \o v.s \o "\""
      [] v.t = "arr" -> "[" \o ItemsToString(v.items) \o "]"
      [] OTHER -> v.s

\* join("\n")
RECURSIVE JoinLines(_)
JoinLines(texts) ==
    IF texts = <<>> THEN ""
    ELSE IF Len(texts) = 1 THEN texts[1]
    ELSE texts[1] \o "\n" \o JoinLines(Tail(texts))

\* ---- handle_chat_completions
IsResponsesFormat(b) ==
    b.messages.t = "absent" /\ (b.instructions.t # "absent" \/ b.input.t # "absent")

NormalizeChat(b) ==
    IF ~IsResponsesFormat(b) THEN b
    ELSE LET withSystem ==
                 IF b.instructions.t = "str" /\ b.instructions.s # ""
                 THEN MessagesArray(<<SystemMsg(b.instructions.s)>>)
                 ELSE b.messages
             user_msg == IF b.input.t = "str" THEN UserMsg(b.input.s)
                         ELSE UserMsg(ValueToString(b.input))
             withUser ==
                 IF b.input.t # "absent" /\ withSystem.t = "arr"
                 THEN MessagesArray(Append(withSystem.list, user_msg))
                 ELSE withSystem
         IN [b EXCEPT !.messages = withUser]

\* ---- handle_completions, first pass
IsCodexStyle(b) == b.input.t # "absent" \/ b.instructions.t # "absent"

\* mutant of NewMessages: the pass appends to the messages the body holds
NewMessages_Kept(b) == b.messages.list

\* let mut messages = Vec::new()
NewMessages(b) == <<>>

CallTypes == {"function_call", "local_shell_call", "web_search_call"}
OutputTypes == {"function_call_output", "custom_tool_call_output"}

\* mutant of CallIdToName: no call item is recorded
CallIdToName_Unknown(items, call_id, found) == found

\* pass 1: call_id_to_name, the latest insert wins; "shell" when unknown
RECURSIVE CallIdToName(_, _, _)
CallIdToName(items, call_id, found) ==
    IF items = <<>> THEN found
    ELSE LET item == items[1]
             name == CASE item.type = "local_shell_call" -> "shell"
                       [] item.type = "web_search_call" -> "google_search"
                       [] OTHER -> item.name
         IN CallIdToName(Tail(items), call_id,
                         IF item.type \in CallTypes /\ item.call_id = call_id
                         THEN name ELSE found)

\* serde_json::to_string of a command value
RECURSIVE QuotedWords(_)
QuotedWords(words) ==
    IF words = <<>> THEN ""
    ELSE IF Len(words) = 1 THEN "\"" \o words[1] \o "\""
    ELSE "\"" \o words[1] \o "\"," \o QuotedWords(Tail(words))
CmdJson(cmd) ==
    CASE cmd.t = "str" -> "\"" \o cmd.words[1] \o "\""
      [] cmd.t = "num" -> cmd.words[1]
      [] OTHER -> "[" \o QuotedWords(cmd.words) \o "]"

\* mutant of CmdVal: a string command is passed as it is
CmdVal_Unwrapped(cmd) == cmd

\* cmd_val: json!([cmd]) for a string, cmd.clone() otherwise
CmdVal(cmd) == IF cmd.t = "str" THEN CmdArray(cmd.words) ELSE cmd

\* args_str of a call item: the item's arguments string, "{}" without one;
\* for a local_shell_call with action.exec, the serialized command
ArgsStr(item) ==
    IF item.type = "local_shell_call" /\ item.command.t # "none"
    THEN "{\"command\":" \o CmdJson(CmdVal(item.command)) \o "}"
    ELSE "{}"

\* pass 2: the messages one input item gives
ItemMessages(item, all) ==
    CASE item.type = "message" ->
           << Msg(IF item.has_role THEN item.role ELSE "user", item.text, "", "", FALSE) >>
      [] item.type \in CallTypes ->
           << ToolCallMsg(item.call_id,
                          CASE item.type = "local_shell_call" -> "shell"
                            [] item.type = "web_search_call" -> "google_search"
                            [] OTHER -> item.name,
                          ArgsStr(item)) >>
      [] item.type \in OutputTypes ->
           << Msg("tool", item.text, item.call_id,
                  CallIdToName(all, item.call_id, "shell"), FALSE) >>
      [] OTHER -> <<>>

RECURSIVE Pass2(_, _)
Pass2(items, all) ==
    IF items = <<>> THEN <<>>
    ELSE ItemMessages(items[1], all) \o Pass2(Tail(items), all)

CodexMessages(b) ==
    LET instructions == IF b.instructions.t = "str" THEN b.instructions.s ELSE ""
        input_items == IF b.input.t = "arr" THEN b.input.items ELSE <<>>
    IN NewMessages(b)
         \o (IF instructions # "" THEN <<SystemMsg(instructions)>> ELSE <<>>)
         \o Pass2(input_items, input_items)

PromptStr(v) ==
    CASE v.t = "str" -> v.s
      [] v.t = "arr" -> JoinLines([i \in DOMAIN v.items |-> v.items[i].text])
      [] OTHER -> ValueToString(v)

FirstPass(b) ==
    IF IsCodexStyle(b) THEN [b EXCEPT !.messages = MessagesArray(CodexMessages(b))]
    ELSE IF b.prompt.t # "absent"
    THEN [b EXCEPT !.prompt = Absent,
                   !.messages = MessagesArray(<<UserMsg(PromptStr(b.prompt))>>)]
    ELSE b

\* ---- handle_completions, second pass
HasCodexFields(b) == b.instructions.t # "absent" \/ b.input.t # "absent"
AlreadyNormalized(b) == b.messages.t = "arr" /\ b.messages.list # <<>>

SimpleInput(input) ==
    CASE input.t = "absent" -> <<>>
      [] input.t = "str" -> <<UserMsg(input.s)>>
      [] input.t = "arr" ->
           IF input.items # <<>> /\ input.items[1].json = "object" /\ input.items[1].has_role
           THEN [i \in DOMAIN input.items |->
                    Msg(input.items[i].role, input.items[i].text,
                        input.items[i].call_id, input.items[i].name, TRUE)]
           ELSE LET content == JoinLines([i \in DOMAIN input.items |->
                                   IF input.items[i].json = "string" THEN input.items[i].text
                                   ELSE ItemToString(input.items[i])])
                IN IF content # "" THEN <<UserMsg(content)>> ELSE <<>>
      [] OTHER -> <<UserMsg(ValueToString(input))>>

SimpleMessages(b) ==
    (IF b.instructions.t = "str" /\ b.instructions.s # ""
     THEN <<SystemMsg(b.instructions.s)>> ELSE <<>>)
      \o SimpleInput(b.input)

SecondPass(b) ==
    IF HasCodexFields(b) /\ ~AlreadyNormalized(b)
    THEN [b EXCEPT !.messages = MessagesArray(SimpleMessages(b))]
    ELSE b

NormalizeCompletions(b) == SecondPass(FirstPass(b))

NormalizeBody(h, b) == IF h = "chat" THEN NormalizeChat(b) ELSE NormalizeCompletions(b)

\* ---- both handlers: deserialize, then the fallback message
FallbackMessage == UserMsg(" ")

\* mutant of InjectFallback: nothing is injected
InjectFallback_Nothing(msgs) == msgs

InjectFallback(msgs) == IF msgs = <<>> THEN <<FallbackMessage>> ELSE msgs

InvalidRequestResponse == Resp("error", 400, {}, "Invalid request", NoError, <<>>)

\* serde_json::from_value::<OpenAIRequest>: Err, or the messages it read;
\* a body without messages gives Err or an empty list
FromValue(b) ==
    {"Err"} \cup (IF b.messages.t = "arr" THEN {"Ok"} ELSE {"OkDefault"})

NormInit ==
    /\ handler \in Handlers
    /\ client_wants_stream = FALSE
    /\ pool_size = 1
    /\ pc = "norm_start"
    /\ LoopIdle
    /\ ImageIdle
    /\ StreamIdle
    /\ body \in Bodies
    /\ runs = 0
    /\ messages = <<>>

normRest == <<handler, model, custom_mapping, client_wants_stream, last_msg,
              pool_size, max_attempts, mapped_model, attempt, email, last_email,
              last_error, upstream_resp, stream_in, tm_sticky, tm_marks, last_mark,
              tm_success, get_token_calls, last_get_token, upstream_calls,
              last_call, rate_limit_seen, last_failure, slept>>

\* the handler's normalization of the body; applied again to its own output
\* up to MaxRuns times
Normalize ==
    /\ pc \in {"norm_start", "normalized"}
    /\ runs < MaxRuns
    /\ body' = NormalizeBody(handler, body)
    /\ runs' = runs + 1
    /\ pc' = "normalized"
    /\ UNCHANGED <<normRest, response, imageVars, streamVars, messages>>

\* from_value; 400 on Err, otherwise the fallback message when empty
Deserialize ==
    /\ pc = "normalized"
    /\ \E r \in FromValue(body) :
         IF r = "Err"
         THEN response' = InvalidRequestResponse /\ UNCHANGED messages
         ELSE messages' = InjectFallback(body.messages.list) /\ UNCHANGED response
    /\ pc' = "norm_done"
    /\ UNCHANGED <<normRest, imageVars, streamVars, body, runs>>

NormNext == Normalize \/ Deserialize

NormSpec == NormInit /\ [][NormNext]_vars

\* ------------------------------------------------- the peek, chunk by chunk
PEEK_TIMEOUT_SECS == 60  \* Duration::from_secs(60) around openai_stream.next()
MaxClock == 90           \* seconds of one attempt's peek that are followed
MaxArrived == 3          \* chunks one translated stream yields

\* the time that passes between two events of the stream
Delays == {20, 30}

\* mutant of DeadlinePassed: one deadline for the whole peek
DeadlinePassed_WholePeek(idl) == clock >= PEEK_TIMEOUT_SECS

\* tokio::time::timeout(60 s, openai_stream.next()): armed anew for every
\* call of next()
DeadlinePassed(idl) == idl >= PEEK_TIMEOUT_SECS

\* mutant of Once: the peeked chunk is put back twice
Once_Twice(bytes) == <<bytes, bytes>>

\* futures::stream::once(first_data_chunk)
Once(bytes) == <<bytes>>

\* .chain(openai_stream): what the combined stream has yielded when the rest
\* of openai_stream yields bytes
Chain(combined, bytes) == Append(combined, bytes)

StreamInit ==
    /\ handler \in Handlers
    /\ client_wants_stream \in BOOLEAN
    /\ pool_size = Len(Accounts)
    /\ pc = "start"
    /\ LoopIdle
    /\ ImageIdle
    /\ StreamIdle
    /\ NormIdle

streamRest == <<handler, model, custom_mapping, client_wants_stream, last_msg,
                pool_size, max_attempts, mapped_model, email, last_email,
                tm_sticky, tm_marks, last_mark, get_token_calls, last_get_token,
                rate_limit_seen, slept>>

\* the upstream call answers 200 and the translated stream is created
OpenStream ==
    /\ pc = "call"
    /\ upstream_calls' = upstream_calls + 1
    /\ last_call' = [method |-> Method(ActualStream(client_wants_stream)),
                     query |-> QueryString(ActualStream(client_wants_stream))]
    /\ tm_success' = IF handler = "completions" THEN tm_success \cup {email} ELSE tm_success
    /\ pc' = "peek"
    /\ clock' = 0
    /\ idle' = 0
    /\ arrived' = <<>>
    /\ first_data_chunk' = ""
    /\ stream_in' = NoStream
    /\ UNCHANGED <<streamRest, attempt, last_error, last_failure, upstream_resp,
                   response, retry_signals, imageVars, normVars>>

\* time passes while next() is awaited, up to the deadline of this await
PeekTick ==
    /\ pc = "peek"
    /\ ~DeadlinePassed(idle)
    /\ clock < MaxClock
    /\ \E d \in Delays :
         /\ idle' = Min(idle + d, PEEK_TIMEOUT_SECS)
         /\ clock' = clock + (Min(idle + d, PEEK_TIMEOUT_SECS) - idle)
    /\ UNCHANGED <<textVars, imageVars, arrived, first_data_chunk, retry_signals,
                   normVars>>

\* mutant of RetrySignal: the failed peek is followed by another peek of the
\* same stream, and no attempt is consumed
RetrySignal_PeekAgain(cause) ==
    /\ last_error' = PeekLastError(handler, client_wants_stream, cause)
    /\ pc' = "peek"
    /\ UNCHANGED <<last_failure, retry_signals, attempt, first_data_chunk, stream_in>>

\* retry_this_account = true; continue
RetrySignal(cause) ==
    /\ last_error' = PeekLastError(handler, client_wants_stream, cause)
    /\ last_failure' = [attempt |-> attempt, email |-> email, cause |-> cause,
                        status |-> 0, text |-> ""]
    /\ retry_signals' = retry_signals + 1
    /\ attempt' = attempt + 1
    /\ pc' = "get_token"
    /\ UNCHANGED <<first_data_chunk, stream_in>>

\* next() yields a chunk before the deadline: skipped, an error event, or
\* the first data chunk
PeekChunk ==
    /\ pc = "peek"
    /\ ~DeadlinePassed(idle)
    /\ Len(arrived) < MaxArrived
    /\ \E bytes \in ChunkTexts :
         /\ arrived' = Append(arrived, bytes)
         /\ idle' = 0
         /\ IF bytes = EmptyChunk \/ IsHeartbeat(bytes)
            THEN UNCHANGED <<last_error, last_failure, retry_signals, attempt, pc,
                             first_data_chunk, stream_in>>
            ELSE IF ContainsError(bytes)
            THEN RetrySignal("error_event")
            ELSE /\ first_data_chunk' = bytes
                 /\ stream_in' = [chunks |-> Once(bytes), term |-> "open"]
                 /\ pc' = "forward"
                 /\ UNCHANGED <<last_error, last_failure, retry_signals, attempt>>
    /\ UNCHANGED <<streamRest, upstream_resp, response, tm_success, upstream_calls,
                   last_call, clock, imageVars, normVars>>

\* next() yields Some(Err) or None before the deadline
PeekStreamEnds ==
    /\ pc = "peek"
    /\ ~DeadlinePassed(idle)
    /\ \E cause \in {"stream_error", "empty"} : RetrySignal(cause)
    /\ UNCHANGED <<streamRest, upstream_resp, response, tm_success, upstream_calls,
                   last_call, clock, idle, arrived, imageVars, normVars>>

\* the deadline of this await passes: Err(_) of the timeout
PeekDeadline ==
    /\ pc = "peek"
    /\ DeadlinePassed(idle)
    /\ RetrySignal("timeout")
    /\ UNCHANGED <<streamRest, upstream_resp, response, tm_success, upstream_calls,
                   last_call, clock, idle, arrived, imageVars, normVars>>

\* the combined stream yields the next chunk of openai_stream, as it is
ForwardChunk ==
    /\ pc = "forward"
    /\ Len(arrived) < MaxArrived
    /\ \E bytes \in ChunkTexts :
         /\ arrived' = Append(arrived, bytes)
         /\ stream_in' = [stream_in EXCEPT !.chunks = Chain(@, bytes)]
    /\ UNCHANGED <<streamRest, attempt, pc, last_error, last_failure, upstream_resp,
                   response, tm_success, upstream_calls, last_call, clock, idle,
                   first_data_chunk, retry_signals, imageVars, normVars>>

\* mutant of ForwardEnds: the end of the combined stream signals a retry
ForwardEnds_Retry ==
    /\ pc = "forward"
    /\ RetrySignal("stream_error")
    /\ UNCHANGED <<streamRest, upstream_resp, response, tm_success, upstream_calls,
                   last_call, clock, idle, arrived, imageVars, normVars>>

\* the combined stream ends: the SSE body is complete, or the collector
\* returns the JSON or fails
ForwardEnds ==
    /\ pc = "forward"
    /\ \E term \in {"end", "error"} :
         /\ stream_in' = [stream_in EXCEPT !.term = term]
         /\ response' = IF client_wants_stream
                        THEN SseResponse(handler, email, mapped_model, stream_in.chunks)
                        ELSE IF term = "end"
                        THEN JsonResponse(email, mapped_model, stream_in.chunks)
                        ELSE CollectErrorResponse
    /\ pc' = "done"
    /\ UNCHANGED <<streamRest, attempt, last_error, last_failure, upstream_resp,
                   tm_success, upstream_calls, last_call, streamVars, imageVars,
                   normVars>>

StreamNext ==
    \/ Begin
    \/ GetToken
    \/ OpenStream
    \/ PeekTick
    \/ PeekChunk
    \/ PeekStreamEnds
    \/ PeekDeadline
    \/ ForwardChunk
    \/ ForwardEnds
    \/ Exhausted

StreamSpec == StreamInit /\ [][StreamNext]_vars

\* ------------------------------------------------- the request under fairness
\* the steps the handler takes by itself once the awaited call has returned:
\* get_token, the upstream call, and each next() of the peek loop, which
\* the timeout ends after 60 s
LoopStep ==
    \/ Begin
    \/ GetToken
    \/ OpenStream
    \/ PeekTick
    \/ PeekChunk
    \/ PeekStreamEnds
    \/ PeekDeadline
    \/ Exhausted

\* the combined stream is read by the response body or by the collector at
\* the pace of upstream; nothing in the handler bounds it
LiveNext == LoopStep \/ ForwardChunk \/ ForwardEnds

\* a request to a pool of one account: two attempts
LiveInit ==
    /\ handler \in Handlers
    /\ client_wants_stream \in BOOLEAN
    /\ pool_size = 1
    /\ pc = "start"
    /\ LoopIdle
    /\ ImageIdle
    /\ StreamIdle
    /\ NormIdle

LiveSpec == LiveInit /\ [][LiveNext]_vars /\ WF_vars(LoopStep)

\* ---------------------------------------------------------- image handlers
MaxN == 3                \* largest n a request asks for
MaxParts == 2            \* inlineData parts with data in one upstream reply

ImageHandlers == {"generations", "edits"}

TaskErrors == {"Upstream error 500: x", "Network error: reset", "Parse error: eof"}

\* what one spawned task ends with: the reply's number of inlineData parts
\* of candidates[0] that carry data, an Err of the task, or a join error
Pending == [kind |-> "pending", parts |-> 0, err |-> ""]
TaskResults ==
    { [kind |-> "ok", parts |-> k, err |-> ""] : k \in 0..MaxParts }
    \cup { [kind |-> "err", parts |-> 0, err |-> e] : e \in TaskErrors }
    \cup { [kind |-> "join", parts |-> 0, err |-> "Task join error: panic"] }

\* mutant of ImagesOf: one entry for every reply
ImagesOf_OnePerReply(idx, r) ==
    IF r.kind = "ok" THEN << [task |-> idx, part |-> 1] >> ELSE <<>>

\* the entries one task adds to images: one for each inlineData part with data
ImagesOf(idx, r) ==
    IF r.kind = "ok" THEN [j \in 1..r.parts |-> [task |-> idx, part |-> j]] ELSE <<>>

\* the entries one task adds to errors
ErrorsOf(r) == IF r.kind \in {"err", "join"} THEN <<r.err>> ELSE <<>>

RECURSIVE CollectImages(_, _)
CollectImages(ts, idx) ==
    IF idx > Len(ts) THEN <<>>
    ELSE ImagesOf(idx, ts[idx]) \o CollectImages(ts, idx + 1)

RECURSIVE CollectErrors(_, _)
CollectErrors(ts, idx) ==
    IF idx > Len(ts) THEN <<>>
    ELSE ErrorsOf(ts[idx]) \o CollectErrors(ts, idx + 1)

\* errors.join("; ")
RECURSIVE JoinErrors(_)
JoinErrors(errs) ==
    IF errs = <<>> THEN ""
    ELSE IF Len(errs) = 1 THEN errs[1]
    ELSE errs[1] \o "; " \o JoinErrors(Tail(errs))

MissingPromptResponse(h) ==
    Resp("error", 400, {},
         IF h = "generations" THEN "Missing 'prompt' field" ELSE "Missing prompt",
         NoError, <<>>)

ImageTokenErrorResponse == Resp("error", 503, {}, "Token error", NoError, <<>>)

\* mutant of ImageResponse: an empty data array when no call failed
ImageResponse_EmptyData(em, imgs, errs) ==
    IF imgs = <<>> /\ errs # <<>>
    THEN Resp("error", 502, {}, JoinErrors(errs), NoError, <<>>)
    ELSE Resp("json", 200, {<<"X-Account-Email", em>>}, "", NoError, imgs)

\* mutant of ImageResponse: the 502 text is always the joined errors
ImageResponse_JoinedOnly(em, imgs, errs) ==
    IF imgs = <<>>
    THEN Resp("error", 502, {}, JoinErrors(errs), NoError, <<>>)
    ELSE Resp("json", 200, {<<"X-Account-Email", em>>}, "", NoError, imgs)

\* the response after the tasks were collected; chunks holds the data array
ImageResponse(em, imgs, errs) ==
    IF imgs = <<>>
    THEN Resp("error", 502, {},
              IF errs # <<>> THEN JoinErrors(errs) ELSE "No images generated",
              NoError, <<>>)
    ELSE Resp("json", 200, {<<"X-Account-Email", em>>}, "", NoError, imgs)

ImageInit ==
    /\ handler \in ImageHandlers
    /\ client_wants_stream = FALSE
    /\ pool_size \in {1}
    /\ pc = "img_start"
    /\ LoopIdle
    /\ img_n \in 0..MaxN
    /\ tasks = <<>>
    /\ images = <<>>
    /\ errors = <<>>
    /\ StreamIdle
    /\ NormIdle

\* mutant of SpawnTasks: one task more than n
SpawnTasks_OneMore(cnt) == [i \in 1..(cnt + 1) |-> Pending]

\* for _ in 0..n { tasks.push(tokio::spawn(..)) }
SpawnTasks(cnt) == [i \in 1..cnt |-> Pending]

\* get_token("image_gen", false, None, "dall-e-3")
NoSession == <<>>
ImageGetTokenCall(result) ==
    [attempt |-> 0, force_rotate |-> FALSE, session |-> NoSession, result |-> result]

\* call_v1_internal("generateContent", &access_token, body, None)
ImageCall(access_token) ==
    [method |-> "generateContent", query |-> "", token |-> access_token]

imageRest == <<model, custom_mapping, client_wants_stream, last_msg, pool_size,
               max_attempts, mapped_model, attempt, last_email, last_error,
               upstream_resp, stream_in, tm_sticky, tm_marks, last_mark,
               tm_success, rate_limit_seen, last_failure, slept>>

imageCalls == <<last_get_token, upstream_calls, last_call>>

\* the request is parsed; a missing prompt ends it with 400
ImageParse ==
    /\ pc = "img_start"
    /\ \E has_prompt \in BOOLEAN :
         IF has_prompt
         THEN pc' = "img_token" /\ UNCHANGED response
         ELSE pc' = "done" /\ response' = MissingPromptResponse(handler)
    /\ UNCHANGED <<handler, email, get_token_calls, imageRest, imageCalls,
                   imageVars, streamVars, normVars>>

\* get_token("image_gen", false, None, "dall-e-3"), once; then the n tasks
\* are spawned
ImageGetToken ==
    /\ pc = "img_token"
    /\ get_token_calls' = get_token_calls + 1
    /\ \E t \in Pool(Len(Accounts)) \cup {"Err"} :
         /\ last_get_token' = ImageGetTokenCall(t)
         /\ IF t = "Err"
            THEN /\ response' = ImageTokenErrorResponse
                 /\ pc' = "done"
                 /\ UNCHANGED <<email, tasks>>
            ELSE /\ email' = t
                 /\ tasks' = SpawnTasks(img_n)
                 /\ pc' = "img_tasks"
                 /\ UNCHANGED response
    /\ UNCHANGED <<handler, imageRest, upstream_calls, last_call, img_n, images,
                   errors, streamVars, normVars>>

\* the handler future is dropped while it waits in `task.await`: the
\* JoinHandles in `tasks` are dropped with it, which detaches the tasks
ImageCancel ==
    /\ pc = "img_tasks"
    /\ pc' = "cancelled"
    /\ UNCHANGED <<handler, email, response, get_token_calls, imageRest,
                   imageCalls, imageVars, streamVars, normVars>>

\* one spawned task finishes its upstream call; a task spawned with
\* tokio::spawn runs on the runtime whether or not the handler still waits
ImageTask ==
    /\ pc \in {"img_tasks", "cancelled"}
    /\ \E i \in 1..Len(tasks) :
         /\ tasks[i] = Pending
         /\ \E r \in TaskResults : tasks' = [tasks EXCEPT ![i] = r]
    /\ upstream_calls' = upstream_calls + 1
    /\ last_call' = ImageCall(email)
    /\ UNCHANGED <<handler, pc, email, response, get_token_calls, imageRest,
                   last_get_token,
                   img_n, images, errors, streamVars, normVars>>

\* every task was awaited, in index order: collect and answer
ImageRespond ==
    /\ pc = "img_tasks"
    /\ \A i \in 1..Len(tasks) : tasks[i] # Pending
    /\ images' = CollectImages(tasks, 1)
    /\ errors' = CollectErrors(tasks, 1)
    /\ response' = ImageResponse(email, CollectImages(tasks, 1), CollectErrors(tasks, 1))
    /\ pc' = "done"
    /\ UNCHANGED <<handler, email, get_token_calls, imageRest, imageCalls, img_n, tasks,
                   streamVars, normVars>>

ImageNext ==
    ImageParse \/ ImageGetToken \/ ImageCancel \/ ImageTask \/ ImageRespond

ImageSpec == ImageInit /\ [][ImageNext]_vars

\* ======================================================== properties
HasHeader(name) == \E h \in response.headers : h[1] = name
HeaderIs(name, value) == <<name, value>> \in response.headers

RetryableStatuses == {401, 403, 429, 500, 503, 529}
PeekFailures == {"error_event", "stream_error", "empty", "timeout"}

\* the latest failed attempt failed in a way the retry policy retries
RetryableFailure ==
    \/ last_failure.cause = "network"
    \/ last_failure.cause \in PeekFailures
    \/ last_failure.cause = "http" /\ last_failure.status \in RetryableStatuses

\* the latest get_token call is the one of the attempt after the latest failure
RetriedAfterFailure == last_get_token.attempt = last_failure.attempt + 1

\* C1: for every pool size, 0 and usize::MAX included, the handler makes at
\* most max(2, min(3, pool_size + 1)) upstream calls, and every attempt, the
\* ones ending in a network error or a failed peek included, uses up one
\* iteration of that budget.
C1_UpstreamCallsWithinBudget ==
    /\ pc # "start" => max_attempts = Max(2, Min(3, pool_size + 1))
    /\ upstream_calls <= Max(2, Min(3, pool_size + 1))
    /\ attempt <= upstream_calls
    /\ upstream_calls <= attempt + 1

C1_Witness ==
    /\ pool_size = MaxUsize
    /\ upstream_calls = 3
    /\ response.kind = "exhausted"
    /\ last_failure.cause = "network"

\* C2: every response of the text handlers carries X-Mapped-Model equal to
\* the route resolve_model_route gave for the request's model.
C2_EveryResponseCarriesMappedModel ==
    pc = "done" => HeaderIs("X-Mapped-Model", ResolveModelRoute(model, custom_mapping))

\* C3: every response produced after get_token succeeded at least once
\* carries an X-Account-Email header naming an account.
C3_AccountEmailOnceAcquired ==
    (pc = "done" /\ last_email # NoEmail) =>
        \E h \in response.headers : h[1] = "X-Account-Email" /\ h[2] # NoEmail

\* C4: the attempt after a 400 with a signature trigger does not rotate:
\* get_token is not called with force_rotate = true and returns the account
\* of the failed attempt.
C4_SignatureRetryKeepsAccount ==
    ( /\ last_failure.cause = "http"
      /\ last_failure.status = 400
      /\ ContainsSignatureError(last_failure.text)
      /\ RetriedAfterFailure )
    => /\ last_get_token.force_rotate = FALSE
       /\ last_get_token.result \in {"Err", last_failure.email}

\* C5: get_token is called with force_rotate = true on every attempt but
\* the first; so the attempt that follows an upstream 401, 403, 429, 500,
\* 503 or 529 asks for rotation, and gets another account when the pool
\* holds one.
C5_RetriesForceRotate ==
    last_get_token.attempt >= 0 =>
        /\ last_get_token.force_rotate <=> (last_get_token.attempt > 0)
        /\ ( /\ last_failure.cause = "http"
             /\ last_failure.status \in RetryableStatuses
             /\ RetriedAfterFailure )
           => /\ last_get_token.force_rotate
              /\ Cardinality(Pool(pool_size)) > 1
                    => last_get_token.result # last_failure.email

C5_Witness ==
    /\ last_failure.cause = "http"
    /\ last_failure.status = 503
    /\ last_failure.email = "a@x"
    /\ RetriedAfterFailure
    /\ last_get_token.force_rotate
    /\ last_get_token.result = "b@x"

\* C6: every upstream response with status 429, 500, 503 or 529 makes
\* exactly one mark_rate_limited call, for the account of that attempt,
\* with that status and the mapped model, on the last attempt too.
C6_OneMarkPerRateLimitResponse ==
    /\ tm_marks = rate_limit_seen
    /\ (last_failure.cause = "http" /\ last_failure.status \in RateLimitStatuses)
       => /\ last_mark.attempt = last_failure.attempt
          /\ last_mark.email = last_failure.email
          /\ last_mark.status = last_failure.status
          /\ last_mark.model = ResolveModelRoute(model, custom_mapping)

C6_Witness ==
    /\ tm_marks = 3
    /\ last_mark.status = 529
    /\ last_mark.attempt = max_attempts - 1
    /\ handler = "completions"

\* C7: a retryable failure (upstream 429/500/503/529/401/403, a network
\* error, a failed peek) is never answered with its own status: the
\* response comes from a later attempt, or is the 429 of the exhausted
\* budget.
C7_RetryableFailureNotSurfaced ==
    (pc = "done" /\ RetryableFailure) =>
        /\ attempt = last_failure.attempt + 1
        /\ response.kind \in {"sse", "json", "collect_error", "parse_error",
                              "token_error", "exhausted"}
        /\ response.kind = "exhausted" =>
              (response.status = 429 /\ attempt = max_attempts)
        /\ response.kind # "exhausted" => get_token_calls = attempt + 1

C7_Witness ==
    /\ pc = "done"
    /\ last_failure.cause = "http"
    /\ last_failure.status = 401
    /\ last_failure.attempt = 0
    /\ response.kind = "sse"
    /\ handler = "chat"

\* C8: when every attempt of the budget failed the response is 429 with the
\* body "All accounts exhausted. Last error: <last_error>", last_error being
\* the failure of the latest attempt, with X-Mapped-Model and the
\* X-Account-Email of the last account tried.
C8_ExhaustedResponse ==
    (pc = "done" /\ attempt = max_attempts) =>
        /\ response.kind = "exhausted"
        /\ response.status = 429
        /\ response.text = "All accounts exhausted. Last error: "
        /\ last_failure.attempt = max_attempts - 1
        /\ response.detail.cause = last_failure.cause
        /\ response.detail.status = last_failure.status
        /\ response.detail.text = last_failure.text
        /\ HeaderIs("X-Mapped-Model", ResolveModelRoute(model, custom_mapping))
        /\ HeaderIs("X-Account-Email", last_failure.email)

C8_Witness ==
    /\ pc = "done"
    /\ response.kind = "exhausted"
    /\ max_attempts = 3
    /\ last_failure.cause = "network"
    /\ last_failure.email = "b@x"
    /\ response.detail.cause = "network"

\* C9: with pool_size = 0 the budget is 2, and when the get_token call of
\* attempt 0 fails the request ends with 503, no upstream call and no second
\* get_token call.
C9_EmptyPoolTokenFailure ==
    /\ (pool_size = 0 /\ pc # "start") => max_attempts = 2
    /\ (get_token_calls >= 1 /\ last_email = NoEmail) =>
          /\ pc = "done"
          /\ response.kind = "token_error"
          /\ response.status = 503
          /\ upstream_calls = 0
          /\ get_token_calls = 1

C9_Witness ==
    /\ pool_size = 0
    /\ max_attempts = 2
    /\ pc = "done"
    /\ response.status = 503
    /\ get_token_calls = 1

\* C10: a failed get_token, on attempt 0 or on a later attempt, ends the
\* request with 503 and X-Mapped-Model; the attempts before it made one
\* get_token and one upstream call each, and nothing is called after it.
C10_TokenFailureEndsRequest ==
    last_get_token.result = "Err" =>
        /\ pc = "done"
        /\ response.kind = "token_error"
        /\ response.status = 503
        /\ HeaderIs("X-Mapped-Model", ResolveModelRoute(model, custom_mapping))
        /\ attempt = last_get_token.attempt
        /\ attempt < max_attempts
        /\ get_token_calls = attempt + 1
        /\ upstream_calls = attempt

C10_Witness ==
    /\ last_get_token.result = "Err"
    /\ last_get_token.attempt = 1
    /\ max_attempts = 3
    /\ last_failure.cause = "http"
    /\ last_failure.status = 500
    /\ pc = "done"

\* C14: no chunk of an SSE response body is a heartbeat (trimmed text
\* starting with ":" or "data: :"), before or after the first data chunk.
C14_NoHeartbeatInSseBody ==
    response.kind = "sse" =>
        \A i \in DOMAIN response.chunks :
            response.chunks[i] \notin {CommentChunk, DataCommentChunk}

\* C20: a 200 response names, in X-Account-Email, the account get_token
\* returned on the attempt whose upstream call succeeded, and no other; after
\* a failed attempt on a pool of several accounts that is not the account of
\* the failed attempt.
C20_SuccessNamesSucceedingAccount ==
    response.kind \in {"sse", "json"} =>
        /\ response.status = 200
        /\ last_get_token.attempt = attempt
        /\ \E h \in response.headers : h[1] = "X-Account-Email"
        /\ \A h \in response.headers :
              h[1] = "X-Account-Email" => h[2] = last_get_token.result
        /\ (last_failure.cause # "none" /\ Cardinality(Pool(pool_size)) > 1)
              => ~HeaderIs("X-Account-Email", last_failure.email)

C20_Witness ==
    /\ response.kind = "json"
    /\ response.status = 200
    /\ attempt = 1
    /\ last_failure.attempt = 0
    /\ last_failure.status = 429
    /\ last_failure.email = "a@x"
    /\ HeaderIs("X-Account-Email", "b@x")

\* ------------------------------------------- error handling properties
\* the latest failed attempt was an upstream answer the handlers do not retry
NonRetryableFailure ==
    /\ last_failure.cause = "http"
    /\ \/ last_failure.status = 404
       \/ last_failure.status = 400 /\ ~ContainsSignatureError(last_failure.text)

\* C21: after a 429 or 503 that carried a Retry-After header, the delay slept
\* before the next attempt is the value of the header.
C21_RetryAfterHeaderIsTheDelay ==
    (/\ pc = "get_token"
     /\ last_failure.cause = "http"
     /\ last_failure.status \in {429, 503}
     /\ last_failure.attempt = attempt - 1
     /\ last_mark.attempt = last_failure.attempt
     /\ last_mark.retry_after # 0) =>
        slept = last_mark.retry_after * 1000

\* C22: mark_account_success(email) is called only for an account whose
\* attempt ended in a 200 response after a data chunk passed the peek, and it
\* is called for every text request that ends so, on both handlers.
C22_MarkSuccessOnConfirmedResult ==
    /\ (pc = "done" /\ response.kind \in {"sse", "json"}) => email \in tm_success
    /\ \A e \in tm_success :
          /\ response.kind \in {"sse", "json"}
          /\ HeaderIs("X-Account-Email", e)

\* C23: an upstream 401 or 403 is never followed by a mark_rate_limited
\* call; the handler sleeps 200 ms and the next attempt asks for a rotated
\* account.
C23_AuthErrorsRotateWithoutMark ==
    /\ last_mark.status \notin {401, 403}
    /\ (last_failure.cause = "http" /\ last_failure.status \in {401, 403}) =>
          /\ last_mark.attempt # last_failure.attempt
          /\ attempt = last_failure.attempt + 1
          /\ slept = 200
          /\ response.kind \in {"none", "exhausted", "sse", "json", "collect_error", "token_error"}
          /\ last_get_token.attempt = attempt =>
                (last_get_token.force_rotate /\ get_token_calls = attempt + 1)

C23_Witness ==
    /\ pc = "call"
    /\ last_failure.status = 403
    /\ last_failure.email = "a@x"
    /\ email = "b@x"
    /\ tm_marks = 0
    /\ slept = 200

\* C24: after an upstream 400 with a signature trigger in its body, the
\* request of the next attempt has the recovery prompt appended to its last
\* message, on both text endpoints and whatever the role of that message.
C24_SignatureErrorAppendsRecoveryPrompt ==
    (/\ pc = "call"
     /\ last_failure.cause = "http"
     /\ last_failure.status = 400
     /\ ContainsSignatureError(last_failure.text)
     /\ last_failure.attempt = attempt - 1) =>
        last_msg.repairs >= 1

\* C25: a response of the handlers has status 200, 400, 502, 503 or 429, or
\* it passes through a non-retryable upstream status.
C25_OnlyListedStatusCodes ==
    response.kind # "none" =>
        \/ response.status \in {200, 400, 502, 503, 429}
        \/ response.kind = "passthrough" /\ NonRetryableFailure

\* C25, amended: the statuses the handlers originate are 200, 400, 500, 502,
\* 503 and 429, where 500 is the answer to a failed collection of the stream
\* into JSON and nothing else; every other status passes through a
\* non-retryable upstream status.
C25_ListedStatusCodesAndCollectionError ==
    response.kind # "none" =>
        \/ response.status \in {200, 400, 502, 503, 429}
              /\ response.kind \notin {"passthrough", "collect_error"}
        \/ /\ response.kind = "collect_error"
           /\ response.status = 500
           /\ ~client_wants_stream
           /\ response.text = "Stream collection error"
        \/ /\ response.kind = "passthrough"
           /\ NonRetryableFailure
           /\ response.status = last_failure.status

C25_Witness ==
    /\ pc = "done"
    /\ response.kind = "collect_error"
    /\ response.status = 500
    /\ upstream_resp.status = 200

\* C26: an upstream 404, or another 4xx that is not retried, is answered on
\* the same attempt with the upstream status and body and both headers: no
\* sleep, no further get_token, no mark_rate_limited and no further upstream
\* call.
C26_NonRetryablePassedThrough ==
    NonRetryableFailure =>
        /\ pc = "done"
        /\ response.kind = "passthrough"
        /\ response.status = last_failure.status
        /\ response.text = last_failure.text
        /\ HeaderIs("X-Account-Email", last_failure.email)
        /\ HeaderIs("X-Mapped-Model", mapped_model)
        /\ last_failure.attempt = attempt
        /\ last_get_token.attempt = attempt
        /\ get_token_calls = attempt + 1
        /\ upstream_calls <= attempt + 1
        /\ last_mark.attempt # attempt
        /\ attempt = 0 => (slept = 0 /\ tm_marks = 0 /\ upstream_calls = 1)

C26_Witness ==
    /\ pc = "done"
    /\ response.kind = "passthrough"
    /\ response.status = 404
    /\ attempt = 0
    /\ slept = 0
    /\ upstream_calls = 1
    /\ HeaderIs("X-Account-Email", "a@x")

\* C29: every upstream call of the text handlers is streamGenerateContent
\* with alt=sse whatever the client's stream flag; the branch that reads a
\* generateContent reply is never taken, and the flag only decides between
\* an SSE reply and the JSON collected from the stream.
C29_UpstreamAlwaysStreams ==
    /\ upstream_calls > 0 =>
          last_call = [method |-> "streamGenerateContent", query |-> "alt=sse"]
    /\ response.kind # "parse_error"
    /\ response.kind = "sse" => client_wants_stream
    /\ response.kind \in {"json", "collect_error"} =>
          (~client_wants_stream /\ stream_in.chunks # <<>>)
    /\ response.kind = "json" => response.chunks = CombinedStream(stream_in, Peek(stream_in).idx)

C29_Witness ==
    /\ pc = "done"
    /\ ~client_wants_stream
    /\ response.kind = "json"
    /\ last_call.method = "streamGenerateContent"
    /\ last_call.query = "alt=sse"

\* ---------------------------------------------- normalization properties
\* how often msg occurs in a message list
Occurrences(list, msg) == Cardinality({ i \in DOMAIN list : list[i] = msg })

\* C11: a body that is not answered with 400 gives a non-empty message list:
\* the messages of the normalized body, or exactly the one user message " "
\* when the normalization gave none.
C11_MessagesNonEmpty ==
    (pc = "norm_done" /\ response.status # 400) =>
        /\ messages # <<>>
        /\ body.messages.list = <<>> => messages = <<UserMsg(" ")>>
        /\ body.messages.list # <<>> => messages = body.messages.list

C11_Witness ==
    /\ pc = "norm_done"
    /\ response.status # 400
    /\ handler = "completions"
    /\ body.input.t = "arr"
    /\ body.messages = MessagesArray(<<>>)
    /\ messages = <<UserMsg(" ")>>

\* C12: for a body with instructions and/or input, the two passes of
\* handle_completions applied to their own output give the same messages
\* again, and the system message of the instructions and the user message
\* of a string input occur at most once.
C12_NormalizationIdempotent ==
    (handler = "completions" /\ runs >= 1 /\ IsCodexStyle(body)) =>
        /\ body.messages.t = "arr"
        /\ SecondPass(FirstPass(body)).messages = body.messages
        /\ NormalizeBody(handler, NormalizeBody(handler, body)) = body
        /\ body.instructions.t = "str" =>
              Occurrences(body.messages.list, SystemMsg(body.instructions.s)) <= 1
        /\ body.input.t = "str" =>
              Occurrences(body.messages.list, UserMsg(body.input.s)) <= 1

C12_Witness ==
    /\ handler = "completions"
    /\ runs = 2
    /\ body.instructions = Str("You are terse")
    /\ body.input.t = "arr"
    /\ body.messages.list = <<SystemMsg("You are terse"), UserMsg("say hi")>>

\* C13: on /v1/completions a non-empty string instructions and a string
\* input normalize to the system message of the instructions followed by
\* the user message of the input, and nothing else.
C13_InstructionsAndStringInput ==
    (/\ handler = "completions"
     /\ runs >= 1
     /\ body.instructions.t = "str"
     /\ body.instructions.s # ""
     /\ body.input.t = "str") =>
        body.messages = MessagesArray(<<SystemMsg(body.instructions.s),
                                        UserMsg(body.input.s)>>)

\* the local_shell_call items of the input array
ShellItems ==
    IF body.input.t # "arr" THEN {}
    ELSE { body.input.items[i] : i \in { j \in DOMAIN body.input.items :
                                          body.input.items[j].type = "local_shell_call" } }

\* the tool call message an item gave, if any
ShellCallOf(item) ==
    { m \in { body.messages.list[i] : i \in DOMAIN body.messages.list } :
        m.role = "assistant" /\ m.name = "shell" /\ m.call_id = item.call_id }

Skipped(bytes) == bytes = EmptyChunk \/ IsHeartbeat(bytes)

OnlyHeartbeats == arrived # <<>> /\ \A i \in DOMAIN arrived : IsHeartbeat(arrived[i])

\* the position in arrived of the first chunk the peek did not skip
FirstKept == CHOOSE k \in 1..(Len(arrived) + 1) :
                /\ \A j \in 1..(k - 1) : Skipped(arrived[j])
                /\ k <= Len(arrived) => ~Skipped(arrived[k])

\* C15: the body of a successful streaming response is the first accepted
\* data chunk, once, followed by every later chunk of the translated stream
\* in arrival order; only the empty chunks and heartbeats before it are left
\* out.
C15_BodyIsStreamFromFirstData ==
    (pc = "forward" \/ (pc = "done" /\ response.kind \in {"sse", "json"})) =>
        /\ FirstKept <= Len(arrived)
        /\ arrived[FirstKept] = first_data_chunk
        /\ stream_in.chunks = SubSeq(arrived, FirstKept, Len(arrived))
        /\ response.kind \in {"sse", "json"} => response.chunks = stream_in.chunks

C15_Witness ==
    /\ pc = "done"
    /\ response.kind = "sse"
    /\ arrived = <<CommentChunk, DataChunk, DataChunk>>
    /\ response.chunks = <<DataChunk, DataChunk>>

\* C16: when only heartbeats have arrived for 60 s of a peek, the peek is
\* over, however the heartbeats were spaced.
C16_HeartbeatsFor60sEndPeek ==
    (pc = "peek" /\ OnlyHeartbeats) => clock <= PEEK_TIMEOUT_SECS

\* C16, amended: the 60 s run from the latest chunk, heartbeats included. A
\* peek during which no chunk arrives for 60 s ends with one retry signal
\* and the next attempt asks for a rotated account; a timeout is signalled at
\* no other moment.
C16_SilenceFor60sEndsPeek ==
    /\ pc = "peek" => (idle <= PEEK_TIMEOUT_SECS /\ retry_signals = attempt)
    /\ (pc \in {"get_token", "call"} /\ last_failure.cause = "timeout"
          /\ last_failure.attempt = attempt - 1) =>
            (idle = PEEK_TIMEOUT_SECS /\ retry_signals = attempt)
    /\ (pc \in {"call", "peek", "forward"} /\ attempt > 0) =>
            (last_get_token.attempt = attempt /\ last_get_token.force_rotate)

C16_Witness ==
    /\ pc = "call"
    /\ attempt = 1
    /\ last_failure.cause = "timeout"
    /\ OnlyHeartbeats
    /\ clock > PEEK_TIMEOUT_SECS
    /\ retry_signals = 1
    /\ last_get_token.force_rotate
    /\ email # last_failure.email

\* ------------------------------------------------ image fan-out properties
Answered == pc = "done" /\ handler \in ImageHandlers /\ tasks # <<>>

Succeeded == { i \in 1..img_n : tasks[i].kind = "ok" }
Failed == { i \in 1..img_n : tasks[i].kind \in {"err", "join"} }

RECURSIVE PartsFrom(_)
PartsFrom(i) == IF i > img_n THEN 0 ELSE tasks[i].parts + PartsFrom(i + 1)

\* the error texts of the failed calls, in task order, joined with "; "
RECURSIVE JoinedFrom(_)
JoinedFrom(i) ==
    IF i > img_n THEN ""
    ELSE IF tasks[i].kind = "ok" THEN JoinedFrom(i + 1)
    ELSE IF \A j \in (i + 1)..img_n : tasks[j].kind = "ok" THEN tasks[i].err
    ELSE tasks[i].err \o "; " \o JoinedFrom(i + 1)

\* C17: with n >= 1 calls, the response is 200 with the data whenever at
\* least one call succeeded, and 502 with the joined errors only when all n
\* calls failed.
C17_BadGatewayOnlyWhenAllFail ==
    (Answered /\ img_n >= 1) =>
        /\ Succeeded # {} => response.status = 200
        /\ response.status = 502 =>
              (Failed = 1..img_n /\ response.text = JoinedFrom(1))

\* C17, amended: the response is 502 exactly when no reply carried an image:
\* with the joined errors as body when a call failed, with "No images
\* generated" when none failed; otherwise it is 200 with the images of all
\* replies in task order.
C17_BadGatewayWhenNoImage ==
    (Answered /\ img_n >= 1) =>
        /\ response.status \in {200, 502}
        /\ response.status = 502 <=> PartsFrom(1) = 0
        /\ (response.status = 502 /\ Failed # {}) => response.text = JoinedFrom(1)
        /\ (response.status = 502 /\ Failed = {}) => response.text = "No images generated"
        /\ response.status = 200 =>
              /\ Len(response.chunks) = PartsFrom(1)
              /\ \A k \in 1..(Len(response.chunks) - 1) :
                    response.chunks[k].task <= response.chunks[k + 1].task

C17_Witness ==
    /\ Answered
    /\ img_n = 2
    /\ Succeeded = {1, 2}
    /\ PartsFrom(1) = 0
    /\ response.status = 502
    /\ response.text = "No images generated"

\* C18: the data array has one entry for each call that succeeded and none
\* for a call that failed.
C18_OneEntryPerSuccess ==
    (Answered /\ response.status = 200) =>
        Len(response.chunks) = Cardinality(Succeeded)

\* C18, amended: a call that succeeded adds one entry for each inlineData
\* part with data of its reply (none, one or several), a call that failed
\* adds none.
C18_OneEntryPerImagePart ==
    (Answered /\ response.status = 200) =>
        \A i \in 1..img_n :
            Cardinality({ k \in DOMAIN response.chunks : response.chunks[k].task = i })
                = IF i \in Succeeded THEN tasks[i].parts ELSE 0

C18_Witness ==
    /\ Answered
    /\ response.status = 200
    /\ img_n = 3
    /\ Cardinality(Succeeded) = 2
    /\ Failed # {}
    /\ Len(response.chunks) = 3

\* the output items of the input array, by position
OutputItemIndexes ==
    IF body.input.t # "arr" THEN {}
    ELSE { j \in DOMAIN body.input.items : body.input.items[j].type \in OutputTypes }

\* the call items of the input array that carry this call_id, by position
CallItemIndexes(call_id) ==
    { j \in DOMAIN body.input.items :
        /\ body.input.items[j].type \in CallTypes
        /\ body.input.items[j].call_id = call_id }

\* the name the latest of these call items stands for
RecordedName(call_id) ==
    LET last == CHOOSE j \in CallItemIndexes(call_id) :
                    \A k \in CallItemIndexes(call_id) : k <= j
        item == body.input.items[last]
    IN CASE item.type = "local_shell_call" -> "shell"
         [] item.type = "web_search_call" -> "google_search"
         [] OTHER -> item.name

\* the tool messages that answer this call_id
ToolMessagesOf(call_id) ==
    { m \in { body.messages.list[i] : i \in DOMAIN body.messages.list } :
        m.role = "tool" /\ m.call_id = call_id }

\* C32: every function_call_output / custom_tool_call_output item gives a
\* tool message whose tool_call_id is the item's call_id and whose name is
\* the one recorded for that call_id by a call item of the same array (the
\* latest one when several carry it), wherever the call item stands; the
\* name is shell when no call item carries that call_id.
C32_ToolNameResolvedFromCallId ==
    (handler = "completions" /\ runs >= 1) =>
        \A j \in OutputItemIndexes :
            LET item == body.input.items[j]
            IN /\ \E m \in ToolMessagesOf(item.call_id) : m.content = item.text
               /\ \A m \in ToolMessagesOf(item.call_id) :
                     m.name = IF CallItemIndexes(item.call_id) = {} THEN "shell"
                              ELSE RecordedName(item.call_id)

\* the output item stands before its call item and still gets its name
C32_Witness ==
    /\ handler = "completions"
    /\ runs = 1
    /\ body.input = Arr(<<Item("object", "function_call_output", FALSE, "", "out", "c1", ""),
                          Item("object", "function_call", FALSE, "", "", "c1", "grep")>>)
    /\ body.instructions = Absent
    /\ body.messages.list = <<Msg("tool", "out", "c1", "grep", FALSE),
                              ToolCallMsg("c1", "grep", "{}")>>

\* the messages arrays a body can arrive with
GivenMessages == {MessagesArray(<<>>), MessagesArray(<<UserMsg("hello")>>)}

\* C33: in handle_chat_completions a body that arrived without messages and
\* with a string input has, after the conversion, a message list that ends
\* with the input as one user message, whether or not instructions is
\* present; a non-empty instructions string is a system message before it.
C33_ChatStringInputBecomesUserMessage ==
    (handler = "chat" /\ runs >= 1 /\ body.input.t = "str"
        /\ body.messages \notin GivenMessages) =>
        body.messages =
            MessagesArray(
                (IF body.instructions.t = "str" /\ body.instructions.s # ""
                 THEN <<SystemMsg(body.instructions.s)>> ELSE <<>>)
                \o <<UserMsg(body.input.s)>>)

\* the fan-out tasks that made their upstream call
Called == { i \in 1..Len(tasks) : tasks[i] # Pending }

\* C31: an image request calls get_token at most once, with force_rotate
\* false and no session id; it spawns exactly n tasks, each task makes one
\* upstream call with the token of that one ticket, so an answered request
\* made exactly n upstream calls; nothing is retried, slept or marked.
C31_OneTicketForAllImageCalls ==
    /\ get_token_calls <= 1
    /\ attempt = 0
    /\ slept = 0
    /\ tm_marks = 0
    /\ get_token_calls = 1 =>
          /\ ~last_get_token.force_rotate
          /\ last_get_token.session = NoSession
          /\ last_get_token.result \in {email, "Err"}
    /\ get_token_calls = 0 => (tasks = <<>> /\ upstream_calls = 0)
    /\ tasks # <<>> =>
          /\ Len(tasks) = img_n
          /\ last_get_token.result = email
    /\ upstream_calls = Cardinality(Called)
    /\ upstream_calls > 0 => last_call = ImageCall(last_get_token.result)
    /\ (pc = "done" /\ last_get_token.result = email /\ get_token_calls = 1) =>
          upstream_calls = img_n

\* an answered request with three images asked for: three calls, one ticket
C31_Witness ==
    /\ pc = "done"
    /\ img_n = MaxN
    /\ get_token_calls = 1
    /\ upstream_calls = MaxN
    /\ last_call.token = email
    /\ response.status = 200

\* C35: when a text handler leaves the attempt loop by exhaustion, every one
\* of its max_attempts >= 2 iterations acquired an account: the 429 response
\* carries X-Account-Email of the last one and X-Mapped-Model.
C35_ExhaustedCarriesAccountEmail ==
    response.kind = "exhausted" =>
        /\ response.status = 429
        /\ max_attempts >= 2
        /\ attempt = max_attempts
        /\ get_token_calls = max_attempts
        /\ last_email # NoEmail
        /\ last_email = email
        /\ response.headers = AccountHeaders(last_email, mapped_model)

C35_Witness ==
    /\ pc = "done"
    /\ response.kind = "exhausted"
    /\ response.status = 429
    /\ last_email \in Pool(pool_size)
    /\ <<"X-Account-Email", last_email>> \in response.headers

\* C36: every step that calls mark_rate_limited handles an upstream HTTP
\* response with status 429, 500, 503 or 529 and marks the account of the
\* ticket acquired in that same attempt, once; a step that fails in any other
\* way (network error, failed peek, token error, another status) marks
\* nothing.
C36_MarkOnlyOnRateLimitStatus ==
    [][ /\ tm_marks' # tm_marks =>
             /\ tm_marks' = tm_marks + 1
             /\ pc = "response"
             /\ upstream_resp.status \in {429, 500, 503, 529}
             /\ last_get_token.attempt = attempt
             /\ last_get_token.result = email
             /\ last_mark'.email = email
             /\ last_mark'.attempt = attempt
             /\ last_mark'.status = upstream_resp.status
        /\ last_mark' # last_mark => tm_marks' # tm_marks
        /\ ( /\ last_failure' # last_failure
             /\ ~ ( /\ last_failure'.cause = "http"
                    /\ last_failure'.status \in {429, 500, 503, 529} ) ) =>
             tm_marks' = tm_marks
        /\ response'.kind = "token_error" => tm_marks' = tm_marks
      ]_vars

\* a 529 on the second attempt marked the account of the second attempt
C36_Witness ==
    /\ tm_marks >= 1
    /\ last_mark.status = 529
    /\ last_mark.attempt = 1
    /\ last_failure.attempt = 1
    /\ last_mark.email = last_failure.email
    /\ last_failure.cause = "http"

\* the peek has accepted a first data chunk
Committed ==
    \/ pc = "forward"
    \/ pc = "done" /\ response.kind \in {"sse", "json", "collect_error"}

\* C37: once the peek has accepted a first data chunk the request is
\* committed: no later step calls get_token, upstream or mark_rate_limited,
\* none starts another attempt or changes the account, whatever the rest of
\* the stream brings (an error event, a transport error, an early end).
C37_CommittedAfterFirstData ==
    [][ Committed =>
          /\ Committed'
          /\ get_token_calls' = get_token_calls
          /\ upstream_calls' = upstream_calls
          /\ tm_marks' = tm_marks
          /\ attempt' = attempt
          /\ retry_signals' = retry_signals
          /\ email' = email
          /\ last_error' = last_error
          /\ first_data_chunk' = first_data_chunk
      ]_vars

\* an error event after the first data chunk, then a transport error: the
\* request ended on the account that gave the first chunk
C37_Witness ==
    /\ pc = "done"
    /\ first_data_chunk = DataChunk
    /\ Len(stream_in.chunks) >= 2
    /\ stream_in.chunks[1] = DataChunk
    /\ stream_in.chunks[2] = ErrorChunk
    /\ stream_in.term = "error"
    /\ response.kind \in {"sse", "collect_error"}
    /\ get_token_calls = attempt + 1
    /\ upstream_calls = attempt + 1

\* C38: once the attempt loop of a text request has started, the model, the
\* mapped model, the attempt budget and the stream flag never change, and
\* the last message changes only by the signature-recovery append of
\* handle_chat_completions after a 400 with a signature error; in
\* handle_completions the request never changes, so every get_token call of
\* a request is given the same session id as the one before.
C38_RequestUnchangedAcrossAttempts ==
    [][ pc # "start" =>
          /\ model' = model
          /\ mapped_model' = mapped_model
          /\ max_attempts' = max_attempts
          /\ client_wants_stream' = client_wants_stream
          /\ handler' = handler
          /\ \/ last_msg' = last_msg
             \/ /\ handler = "chat"
                /\ pc = "response"
                /\ upstream_resp.status = 400
                /\ ContainsSignatureError(upstream_resp.text)
                /\ last_msg' = [last_msg EXCEPT !.repairs = @ + 1]
          /\ handler = "completions" => last_msg' = last_msg
          /\ (handler = "completions" /\ last_get_token' # last_get_token
                 /\ last_get_token # NoGetToken) =>
                /\ last_get_token'.session = last_get_token.session
                /\ last_get_token'.attempt = last_get_token.attempt + 1
      ]_vars

\* the third get_token call of a handle_completions request, after a 400
\* with a signature error: same session id, request as it arrived
C38_Witness ==
    /\ handler = "completions"
    /\ pc = "call"
    /\ attempt = 2
    /\ get_token_calls = 3
    /\ last_failure.cause = "http"
    /\ last_failure.status = 400
    /\ ContainsSignatureError(last_failure.text)
    /\ last_msg.repairs = 0
    /\ last_get_token.session = ExtractSessionId(model, last_msg)

\* the handler has returned: with a response, or, for a streaming client,
\* with the SSE response whose body is the combined stream
Returned == pc = "done" \/ (pc = "forward" /\ client_wants_stream)

\* the collector waits for the end of the combined stream
Collecting == pc = "forward" /\ ~client_wants_stream

\* C39: when every awaited call returns and every peek ends, each text
\* request returns a response, within max_attempts loop iterations.
C39_RequestReturns == [](attempt <= max_attempts \/ pc = "start") /\ <>Returned

\* C39, amended: the same, unless a non-streaming request has its first data
\* chunk and the collector waits for ever for the end of the stream.
C39_RequestReturnsOrCollects ==
    /\ [](attempt <= max_attempts \/ pc = "start")
    /\ (<>Returned \/ <>[]Collecting)

\* a non-streaming request returned on its last attempt
C39_Witness ==
    /\ pc = "done"
    /\ ~client_wants_stream
    /\ attempt = max_attempts - 1
    /\ attempt >= 1
    /\ response.kind = "json"

\* C34: with n = 0 an image request that has its prompt still calls
\* get_token; when the ticket is granted it spawns no task, makes no
\* upstream call and answers 502 with the text No images generated, never
\* 200 with an empty data array.
C34_ZeroImagesIsBadGateway ==
    (handler \in ImageHandlers /\ img_n = 0) =>
        /\ tasks = <<>>
        /\ upstream_calls = 0
        /\ response.status # 200
        /\ (pc = "done" /\ response.status # 400) => get_token_calls = 1
        /\ (pc = "done" /\ last_get_token.result \notin {NoEmail, "Err"}) =>
              response = Resp("error", 502, {}, "No images generated", NoError, <<>>)

C34_Witness ==
    /\ handler \in ImageHandlers
    /\ img_n = 0
    /\ pc = "done"
    /\ get_token_calls = 1
    /\ last_get_token.result = email
    /\ upstream_calls = 0
    /\ response.status = 502
    /\ response.text = "No images generated"

\* the reasons the peek loops write to last_error
PeekReasons ==
    { "Error event during peek", "Stream error during peek",
      "Empty response stream during peek", "Empty response stream",
      "Timeout waiting for first data", "Error event in internal stream",
      "Internal stream error", "Empty internal stream", "Timeout peek internal" }

\* C30: each peek failure (the stream ends before a data chunk, 60 s pass
\* without a chunk, a transport error, a first data chunk containing "error")
\* sends no bytes to the client, records its reason in last_error, consumes
\* one attempt and continues the retry loop without a sleep: the next
\* get_token call forces rotation, or the attempts are exhausted.
C30_PeekFailureRetries ==
    last_failure.cause \in PeekFailures =>
        /\ last_error.cause = last_failure.cause
        /\ last_error.msg \in PeekReasons
        /\ attempt = last_failure.attempt + 1
        /\ retry_signals = attempt
        /\ slept = 0
        /\ tm_marks = 0
        /\ last_get_token.attempt = attempt => last_get_token.force_rotate
        /\ last_get_token.attempt # attempt =>
              \/ /\ pc = "get_token"
                 /\ response = NoResponse
                 /\ first_data_chunk = ""
                 /\ stream_in = NoStream
              \/ /\ pc = "done"
                 /\ attempt >= max_attempts
                 /\ response = ExhaustedResponse(last_email, mapped_model, last_error)

\* a peek ended by the end of the stream, by a transport error, by an error
\* event and by the timeout, each followed by a rotated get_token call
C30_Witness ==
    /\ pc = "call"
    /\ attempt = 2
    /\ retry_signals = 2
    /\ last_failure.cause \in PeekFailures
    /\ last_failure.attempt = 1
    /\ last_get_token.force_rotate
    /\ get_token_calls = 3
    /\ response = NoResponse

\* C28: once the image handler is cancelled, no fan-out task makes further
\* progress: the tasks still pending stay pending.
C28_CancelStopsTasks == [][pc = "cancelled" => tasks' = tasks]_vars

\* C19: every response of the image handlers carries X-Mapped-Model, and
\* every response after the ticket was acquired carries X-Account-Email.
C19_ImageResponsesCarryHeaders ==
    (handler \in ImageHandlers /\ response.kind # "none") =>
        /\ HasHeader("X-Mapped-Model")
        /\ email # NoEmail => HasHeader("X-Account-Email")

====
